---- MODULE Spec2Model ----
(***************************************************************************)
(* Model of CharacteristicArgs::parse (host-macro/src/characteristic.rs):  *)
(* the closure passed to syn's parse_nested_meta is applied to the items   *)
(* of one attribute, left to right, fail-fast, followed by the post-pass   *)
(* UUID presence check.                                                    *)
(***************************************************************************)
EXTENDS Integers, Sequences, FiniteSets, TLC

\* Bound: maximal number of comma-separated items in one attribute.
MaxItems == 2

\* Item keys: the ten dispatched names, two unknown identifiers and a
\* multi-segment path (which has no single ident).
DispatchKeys == {"uuid", "read", "write", "write_without_response", "notify",
                 "indicate", "value", "on_write", "on_read", "app_managed"}
FlagKeys == {"read", "write", "write_without_response", "notify", "indicate",
             "app_managed"}
ValueKeys == {"uuid", "value", "on_write", "on_read"}
KeyTok == DispatchKeys \cup {"foo", "descriptor", "a::b"}

\* Right-hand-side tokens after '=': string literals, identifiers, nothing.
RhsTok == {"s1", "s2", "sx", "id1", "id2", "none"}
LitStrText(r) == CASE r = "s1" -> "0x2A37"
                   [] r = "s2" -> "0x180F"
                   [] r = "sx" -> "0xZZZZ"
IsLitStr(r) == r \in {"s1", "s2", "sx"}
IsIdent(r) == r \in {"id1", "id2"}
IsExpr(r) == IsLitStr(r) \/ IsIdent(r)

Item == {[key |-> k, form |-> "bare", rhs |-> "none"] : k \in KeyTok}
        \cup {[key |-> k, form |-> "eq", rhs |-> r] : k \in KeyTok, r \in RhsTok}

\* meta.path.get_ident(): Some only for a single-segment path.
GetIdent(key) == IF key = "a::b" THEN <<>> ELSE <<key>>

\* External UUID parser crate::uuid::Uuid::from_string.
UuidFromString(s) ==
  CASE s = "0x2A37" -> [ok |-> TRUE, uuid |-> <<16, 10807>>, msg |-> ""]
    [] s = "0x180F" -> [ok |-> TRUE, uuid |-> <<16, 6159>>, msg |-> ""]
    [] OTHER        -> [ok |-> FALSE, uuid |-> <<>>, msg |-> "Invalid UUID"]

\* Mutant of DefaultArgs.
DefaultArgsNotify == [uuid |-> <<>>, read |-> FALSE, write |-> FALSE,
                write_without_response |-> FALSE, notify |-> TRUE,
                indicate |-> FALSE, value |-> <<>>, on_write |-> <<>>,
                on_read |-> <<>>, app_managed |-> FALSE, descriptor |-> <<>>]
\* CharacteristicArgs::default(); Option<T> is <<>> (None) or <<x>> (Some).
DefaultArgs == [uuid |-> <<>>, read |-> FALSE, write |-> FALSE,
                write_without_response |-> FALSE, notify |-> FALSE,
                indicate |-> FALSE, value |-> <<>>, on_write |-> <<>>,
                on_read |-> <<>>, app_managed |-> FALSE, descriptor |-> <<>>]

\* Source location of a diagnostic: an item of the attribute, or the macro's
\* call site.
ItemSpan(k) == [at |-> "item", item |-> k]
CallSite == [at |-> "call_site", item |-> 0]
NoSpan == [at |-> "none", item |-> 0]

NoErr == [kind |-> "none", msg |-> "", span |-> NoSpan, listed |-> {}]
\* darling Error::custom(..) converted to syn::Error: no explicit span, so
\* Span::call_site().
CustomErr(kd, m) == [kind |-> kd, msg |-> m, span |-> CallSite, listed |-> {}]
\* syn errors (meta.error, ParseStream::parse) spanned on item k.
SynErr(kd, m, k) == [kind |-> kd, msg |-> m, span |-> ItemSpan(k), listed |-> {}]

\* Mutant of UnsupportedListed.
UnsupportedListedShort == {"uuid", "read", "write", "write_without_response",
                           "notify", "indicate", "value", "on_read", "on_write"}
\* Names enumerated in the unsupported-key message.
UnsupportedListed == {"uuid", "read", "write", "write_without_response",
                      "notify", "indicate", "value", "on_read", "on_write",
                      "app_managed"}
UnsupportedErr(other, k) ==
  [kind |-> "unsupported", msg |-> other, span |-> ItemSpan(k), listed |-> UnsupportedListed]

\* Mutant of UuidMsg.
UuidMsgCopied == "value must be followed by '= [data]'.  i.e. value = 'hello'"
UuidMsg == "uuid must be followed by '= [data]'.  i.e. uuid = '0x2A37'"
ValueMsg == "value must be followed by '= [data]'.  i.e. value = 'hello'"
OnWriteMsg == "on_write must be followed by '= [callback]'. i.e. on_write = characterisic_on_write"
OnReadMsg == "on_read must be followed by '= [callback]'. i.e. on_read = characteristic_on_read"

Fail(e) == [ok |-> FALSE, args |-> DefaultArgs, err |-> e, consumed |-> TRUE]
Done(a, c) == [ok |-> TRUE, args |-> a, err |-> NoErr, consumed |-> c]

\* The closure's match on the item's key (one call of the nested-meta logic).
\* 'consumed' records whether the closure consumed the '= value' tokens.
Dispatch(a, it, k) ==
  IF GetIdent(it.key) = <<>> THEN Fail(CustomErr("no_ident", "no ident"))
  ELSE
  CASE it.key = "uuid" ->
         IF it.form # "eq" THEN Fail(CustomErr("missing_value", UuidMsg))
         ELSE IF ~IsLitStr(it.rhs)
              THEN Fail(SynErr("malformed_value", "expected string literal", k))
         ELSE LET u == UuidFromString(LitStrText(it.rhs)) IN
              IF ~u.ok THEN Fail(CustomErr("invalid_uuid", u.msg))
              ELSE Done([a EXCEPT !.uuid = <<u.uuid>>], TRUE)
    [] it.key = "read" -> Done([a EXCEPT !.read = TRUE], FALSE)
    [] it.key = "write" -> Done([a EXCEPT !.write = TRUE], FALSE)
    [] it.key = "write_without_response" ->
         Done([a EXCEPT !.write_without_response = TRUE], FALSE)
    [] it.key = "notify" -> Done([a EXCEPT !.notify = TRUE], FALSE)
    [] it.key = "indicate" -> Done([a EXCEPT !.indicate = TRUE], FALSE)
    [] it.key = "value" ->
         IF it.form # "eq" THEN Fail(CustomErr("missing_value", ValueMsg))
         ELSE IF ~IsExpr(it.rhs)
              THEN Fail(SynErr("malformed_value", "expected an expression", k))
         ELSE Done([a EXCEPT !.value = <<it.rhs>>], TRUE)
    [] it.key = "on_write" ->
         IF it.form # "eq" THEN Fail(CustomErr("missing_value", OnWriteMsg))
         ELSE IF ~IsIdent(it.rhs)
              THEN Fail(SynErr("malformed_value", "expected identifier", k))
         ELSE Done([a EXCEPT !.on_write = <<it.rhs>>], TRUE)
    [] it.key = "on_read" ->
         IF it.form # "eq" THEN Fail(CustomErr("missing_value", OnReadMsg))
         ELSE IF ~IsIdent(it.rhs)
              THEN Fail(SynErr("malformed_value", "expected identifier", k))
         ELSE Done([a EXCEPT !.on_read = <<it.rhs>>], TRUE)
    [] it.key = "app_managed" -> Done([a EXCEPT !.app_managed = TRUE], FALSE)
    [] OTHER -> Fail(UnsupportedErr(it.key, k))

\* Mutants of ParseItem.
ParseItemMapUuidErr(a, it, k) ==
  LET r == Dispatch(a, it, k) IN
  IF r.ok /\ ~r.consumed /\ it.form = "eq"
  THEN Fail(SynErr("syntax", "expected comma", k))
  ELSE IF r.err.kind = "invalid_uuid" THEN [r EXCEPT !.err.msg = "bad uuid"]
  ELSE r
ParseItemFirstUuidWins(a, it, k) ==
  LET r == Dispatch(a, it, k) IN
  IF r.ok /\ ~r.consumed /\ it.form = "eq"
  THEN Fail(SynErr("syntax", "expected comma", k))
  ELSE IF r.ok /\ it.key = "uuid" /\ a.uuid # <<>>
       THEN [r EXCEPT !.args.uuid = a.uuid]
  ELSE r
ParseItemDescriptor(a, it, k) ==
  IF it.key = "descriptor" /\ it.form = "eq"
  THEN Done([a EXCEPT !.descriptor = Append(@, it.rhs)], TRUE)
  ELSE LET r == Dispatch(a, it, k) IN
       IF r.ok /\ ~r.consumed /\ it.form = "eq"
       THEN Fail(SynErr("syntax", "expected comma", k))
       ELSE r
ParseItemFlagToggle(a, it, k) ==
  LET r == Dispatch(a, it, k) IN
  IF r.ok /\ ~r.consumed /\ it.form = "eq"
  THEN Fail(SynErr("syntax", "expected comma", k))
  ELSE IF r.ok /\ it.key \in FlagKeys
       THEN [r EXCEPT !.args = [a EXCEPT ![it.key] = ~a[it.key]]]
  ELSE r
ParseItemNoTrailingCheck(a, it, k) == Dispatch(a, it, k)

\* syn::meta::parse_nested_meta: after the closure returns Ok, any tokens it
\* left unconsumed must be a ',' (or the end), otherwise a syntax error.
ParseItem(a, it, k) ==
  LET r == Dispatch(a, it, k) IN
  IF r.ok /\ ~r.consumed /\ it.form = "eq"
  THEN Fail(SynErr("syntax", "expected comma", k))
  ELSE r

VARIABLES items, pos, args, result, err
vars == <<items, pos, args, result, err>>

AllItemSeqs == UNION {[1..n -> Item] : n \in 0..MaxItems}

Init ==
  /\ items \in AllItemSeqs
  /\ pos = 1
  /\ args = DefaultArgs
  /\ result = "running"
  /\ err = NoErr

\* Mutant of Step: records the error and keeps walking.
StepContinue ==
  /\ result = "running"
  /\ pos <= Len(items)
  /\ LET r == ParseItem(args, items[pos], pos) IN
       IF r.ok THEN /\ args' = r.args
                    /\ UNCHANGED err
               ELSE /\ err' = r.err
                    /\ UNCHANGED args
  /\ pos' = pos + 1
  /\ UNCHANGED <<items, result>>

\* One invocation of the nested-meta closure on item 'pos'.
Step ==
  /\ result = "running"
  /\ pos <= Len(items)
  /\ LET r == ParseItem(args, items[pos], pos) IN
       IF r.ok THEN /\ args' = r.args
                    /\ pos' = pos + 1
                    /\ UNCHANGED <<result, err>>
               ELSE /\ result' = "err"
                    /\ err' = r.err
                    /\ UNCHANGED <<args, pos>>
  /\ UNCHANGED items

\* Mutant of Finish.
FinishNoUuidCheck ==
  /\ result = "running"
  /\ pos > Len(items)
  /\ result' = "ok"
  /\ UNCHANGED <<items, pos, args, err>>

\* Post-pass: if args.uuid.is_none() => Err(missing UUID).
Finish ==
  /\ result = "running"
  /\ pos > Len(items)
  /\ IF args.uuid = <<>>
     THEN /\ result' = "err"
          /\ err' = CustomErr("missing_uuid", "Characteristic must have a UUID")
     ELSE /\ result' = "ok"
          /\ UNCHANGED err
  /\ UNCHANGED <<items, pos, args>>

Next == Step \/ Finish

Spec == Init /\ [][Next]_vars

\* ------------------------------------------------------------------------
\* Attributes made of a subset of the bare flags, in any order, together with
\* one valid uuid item.
RECURSIVE Perms(_)
Perms(S) == IF S = {} THEN {<<>>}
            ELSE UNION {{<<x>> \o p : p \in Perms(S \ {x})} : x \in S}
FlagItems == {[key |-> k, form |-> "bare", rhs |-> "none"] : k \in FlagKeys}
UuidItem == [key |-> "uuid", form |-> "eq", rhs |-> "s1"]
FlagSeqs == UNION {Perms(T \cup {UuidItem}) : T \in SUBSET FlagItems}

InitFlags ==
  /\ items \in FlagSeqs
  /\ pos = 1
  /\ args = DefaultArgs
  /\ result = "running"
  /\ err = NoErr

SpecFlags == InitFlags /\ [][Next]_vars

\* Attributes made of well-formed items only, with keys repeated.
\* Bound: maximal number of items in such an attribute.
MaxRepeat == 3
RepeatItem ==
  {[key |-> "uuid", form |-> "eq", rhs |-> r] : r \in {"s1", "s2"}}
  \cup {[key |-> "value", form |-> "eq", rhs |-> r] : r \in {"s1", "id2"}}
  \cup {[key |-> k, form |-> "eq", rhs |-> r] : k \in {"on_read", "on_write"},
                                                 r \in {"id1", "id2"}}
  \cup {[key |-> f, form |-> "bare", rhs |-> "none"] : f \in FlagKeys}

InitRepeat ==
  /\ items \in UNION {[1..n -> RepeatItem] : n \in 0..MaxRepeat}
  /\ pos = 1
  /\ args = DefaultArgs
  /\ result = "running"
  /\ err = NoErr

SpecRepeat == InitRepeat /\ [][Next]_vars

\* ------------------------------------------------------------------------
\* Properties.

HasKey(key) == \E i \in 1..Len(items) : items[i].key = key
LastOf(key) == CHOOSE i \in 1..Len(items) :
                 items[i].key = key /\ \A j \in (i+1)..Len(items) : items[j].key # key
Walked == result # "running" /\ pos > Len(items)

\* C1: an attribute without a uuid item never parses to Ok; when every item
\* was accepted, the error is the missing-UUID error.
C1_NoUuidNeverOk ==
  ~HasKey("uuid") =>
     /\ result # "ok"
     /\ (Walked => err.msg = "Characteristic must have a UUID")

C1_Witness == Walked /\ result = "err" /\ err.kind = "missing_uuid" /\ Len(items) = 2

\* Keys named in the attribute grammar's key table.
TableKeys == {"uuid", "read", "write", "write_without_response", "notify",
              "indicate", "value", "on_write", "on_read", "app_managed"}
UnknownPlainKey(key) == GetIdent(key) # <<>> /\ key \notin TableKeys

\* C2: an item whose key is a plain identifier outside the supported set is
\* never accepted; when the walk reaches it, the error is the unsupported-key
\* error, spanned on that item, and its message lists every supported key.
C2_UnknownKeyRejected ==
  \A k \in 1..Len(items) :
     UnknownPlainKey(items[k].key) =>
        /\ result # "ok"
        /\ pos <= k
        /\ (result = "err" /\ pos = k) =>
              /\ err.kind = "unsupported"
              /\ err.span = ItemSpan(k)
              /\ err.msg = items[k].key
              /\ TableKeys \subseteq err.listed

C2_Witness == result = "err" /\ err.kind = "unsupported" /\ pos = 2
              /\ items[1].key = "uuid" /\ items[2].key = "foo"

\* C3: a valid uuid plus any subset of the bare flags, in any order, parses
\* to Ok with exactly that subset of flags set and value, on_read, on_write
\* unset and no descriptors.
C3_FlagSubset ==
  result # "running" =>
     /\ result = "ok"
     /\ \A f \in FlagKeys : args[f] = HasKey(f)
     /\ args.value = <<>> /\ args.on_read = <<>> /\ args.on_write = <<>>
     /\ args.descriptor = <<>>

C3_Witness == result = "ok" /\ args.write /\ args.write_without_response
              /\ args.notify /\ args.indicate /\ ~args.read

\* Whether the closure accepts an item on its own.
ItemAccepted(k) == ParseItem(DefaultArgs, items[k], k).ok

\* C4: fail-fast; if item k is the first rejected item, the parse returns the
\* error of item k (never Ok, never the missing-UUID error), whatever follows.
C4_FailFast ==
  \A k \in 1..Len(items) :
     ((\A j \in 1..(k-1) : ItemAccepted(j)) /\ ~ItemAccepted(k)) =>
        /\ result # "ok"
        /\ result = "err" =>
              /\ pos = k
              /\ err = ParseItem(DefaultArgs, items[k], k).err
              /\ err.kind # "missing_uuid"

C4_Witness == result = "err" /\ pos = 1 /\ Len(items) = 2 /\ ~ItemAccepted(1)
              /\ items[2] = UuidItem

\* C5: a value-requiring key written without '= value' fails with a message
\* that starts with that key and names its required '= [..]' syntax.
C5_MissingValueMsg ==
  \A k \in 1..Len(items) :
     (items[k].key \in ValueKeys /\ items[k].form = "bare") =>
        /\ result # "ok"
        /\ pos <= k
        /\ (result = "err" /\ pos = k) =>
              LET key == items[k].key
                  n == Len(key) IN
              /\ err.kind = "missing_value"
              /\ SubSeq(err.msg, 1, n + 21) = key \o " must be followed by "
              /\ SubSeq(err.msg, n + 22, n + 25) = "'= ["
              /\ \E i \in (n + 26)..(Len(err.msg) - n - 2) :
                    SubSeq(err.msg, i, i + n + 2) = key \o " = "

C5_Witness == result = "err" /\ err.kind = "missing_value"
              /\ items[pos].key = "on_write"

\* C6 (as stated): for every uuid item whose string Uuid::from_string
\* accepts, an Ok result carries exactly that parser's UUID.
C6_Original ==
  \A k \in 1..Len(items) :
     (items[k].key = "uuid" /\ items[k].form = "eq" /\ IsLitStr(items[k].rhs)
      /\ result = "ok") =>
        args.uuid = <<UuidFromString(LitStrText(items[k].rhs)).uuid>>

\* C6 (amended): an Ok result carries from_string of the LAST uuid item's
\* string (earlier uuid items are overwritten); a uuid string rejected by
\* from_string fails with the parser's own message; a non-string right-hand
\* side fails.
C6_UuidFromString ==
  \A k \in 1..Len(items) :
     (items[k].key = "uuid" /\ items[k].form = "eq") =>
        LET r == items[k].rhs IN
        /\ (IsLitStr(r) /\ result = "ok" /\ k = LastOf("uuid")) =>
              args.uuid = <<UuidFromString(LitStrText(r)).uuid>>
        /\ (IsLitStr(r) /\ ~UuidFromString(LitStrText(r)).ok) =>
              /\ result # "ok"
              /\ (result = "err" /\ pos = k) =>
                    err.msg = UuidFromString(LitStrText(r)).msg
        /\ ~IsLitStr(r) => result # "ok"

C6_Witness == result = "ok" /\ Len(items) = 2 /\ items[1].key = "uuid"
              /\ items[2].key = "uuid" /\ items[1].rhs = "s1"
              /\ items[2].rhs = "s2"

\* C7 (as stated): every error of an item is spanned on that item, and the
\* missing-UUID error carries a location.
C7_ErrorsSpanned ==
  result = "err" =>
     /\ pos <= Len(items) => err.span = ItemSpan(pos)
     /\ err.kind = "missing_uuid" => err.span # NoSpan

\* C8: repeated uuid/value/on_read/on_write items are accepted and the last
\* one wins; a repeated bare flag is idempotent.
C8_LastWriteWins ==
  /\ (Walked /\ HasKey("uuid")) => result = "ok"
  /\ result = "ok" =>
       /\ args.uuid = <<UuidFromString(LitStrText(items[LastOf("uuid")].rhs)).uuid>>
       /\ args.value = IF HasKey("value") THEN <<items[LastOf("value")].rhs>> ELSE <<>>
       /\ args.on_read = IF HasKey("on_read") THEN <<items[LastOf("on_read")].rhs>> ELSE <<>>
       /\ args.on_write = IF HasKey("on_write") THEN <<items[LastOf("on_write")].rhs>> ELSE <<>>
       /\ \A f \in FlagKeys : args[f] = HasKey(f)

C8_Witness == result = "ok" /\ Len(items) = 3
              /\ items[1].key = "uuid" /\ items[3].key = "uuid"
              /\ items[1].rhs # items[3].rhs

\* C9: no parse ever yields descriptors, and a 'descriptor' item is rejected
\* as an unsupported key.
C9_NoDescriptors ==
  /\ result = "ok" => args.descriptor = <<>>
  /\ \A k \in 1..Len(items) :
        items[k].key = "descriptor" =>
           /\ result # "ok"
           /\ (result = "err" /\ pos = k) => err.kind = "unsupported"

C9_Witness == result = "err" /\ err.kind = "unsupported"
              /\ items[pos].key = "descriptor" /\ items[pos].form = "eq"

\* C10: a bare-flag key with '= value' attached is never accepted; reaching
\* it fails with a syntax error on that item.
C10_FlagWithValueRejected ==
  \A k \in 1..Len(items) :
     (items[k].key \in FlagKeys /\ items[k].form = "eq") =>
        /\ result # "ok"
        /\ pos <= k
        /\ (result = "err" /\ pos = k) => err.kind = "syntax" /\ err.span = ItemSpan(k)

C10_Witness == result = "err" /\ err.kind = "syntax" /\ items[pos].key = "read"
               /\ items[pos].rhs = "id1"

====
